---- MODULE Spec2Model ----
(***************************************************************************)
(* Model of the transcript-correction pipeline of zhipuAPI:                *)
(*   glm_client.py   GLMClient (pre-filter, quick-fix, remote call, batch) *)
(*   error_detector.py  ErrorDetector.detect_and_correct_file              *)
(*   main.py         configure_high_api_usage, process_single_file         *)
(*                                                                         *)
(* A text is a sequence of characters; each character is written as an     *)
(* ASCII token (pinyin for CJK characters), one token per code point, so   *)
(* that Len(text) is Python's len(text).                                   *)
(* A confidence is an integer number of hundredths (0.9 is 90).            *)
(* A Python dict is a function from key strings to values.                 *)
(***************************************************************************)
EXTENDS FiniteSets, Integers, Sequences, TLC

(***************************************************************************)
(* Bounds of the model.                                                    *)
(***************************************************************************)
MaxSegs == 2        \* longest segment list handed to the batch operation
MaxRetries == 2     \* largest max_retries argument explored (0..MaxRetries)
MaxLen == 3         \* longest enumerated input text of SpecText
MaxPunct == 2       \* most terminal punctuation marks after an acknowledgment
MaxQuickLen == 4    \* longest enumerated text over the quick-fix alphabet
MaxFiles == 3       \* most files handed to one invocation of main()

(***************************************************************************)
(* Characters.                                                             *)
(***************************************************************************)
Whitespace == {" "}
Latin == {"x"}
Digit == {"1"}
AsciiPunct == {".", ",", ";", ":", "!", "?", "(", ")", "-"}
TimeUnit == {"nian", "yue", "ri", "shi2", "fen", "miao"}   \* 年月日时分秒
TerminalPunct == {"juhao", "tanhao", "wenhao"}             \* 。！？
\* the characters between [ and ] of skip_patterns[3]: 好的|是的|嗯|啊|哦|对|不是|没有|有
AckClass == {"hao", "de", "|", "shi", "en", "a", "o", "dui", "bu", "mei", "you"}
\* 的 得 地 在 再 那 哪
ErrorIndicators == {"de", "de2", "di", "zai", "zai4", "na", "na3"}

(***************************************************************************)
(* String helpers (str.strip, substring test, str.replace).                *)
(***************************************************************************)
RECURSIVE LStrip(_)
LStrip(s) == IF s # <<>> /\ Head(s) \in Whitespace THEN LStrip(Tail(s)) ELSE s

RECURSIVE RStrip(_)
RStrip(s) ==
    IF s # <<>> /\ s[Len(s)] \in Whitespace THEN RStrip(SubSeq(s, 1, Len(s) - 1)) ELSE s

Strip(s) == RStrip(LStrip(s))

StartsWith(s, p) == Len(p) <= Len(s) /\ SubSeq(s, 1, Len(p)) = p

Contains(s, p) == \E k \in 1..(Len(s) - Len(p) + 1) : SubSeq(s, k, k + Len(p) - 1) = p

\* str.replace: every non-overlapping occurrence, scanning left to right
RECURSIVE Replace(_, _, _)
Replace(s, p, r) ==
    IF s = <<>> THEN <<>>
    ELSE IF StartsWith(s, p) THEN r \o Replace(SubSeq(s, Len(p) + 1, Len(s)), p, r)
    ELSE <<Head(s)>> \o Replace(Tail(s), p, r)

AllIn(s, class) == \A k \in 1..Len(s) : s[k] \in class

(***************************************************************************)
(* GLMClient.skip_patterns, each matched by re.match on the stripped text. *)
(***************************************************************************)
\* ^[a-zA-Z0-9\s\.,;:!?()-]+$
MatchPureAscii(s) == Len(s) >= 1 /\ AllIn(s, Latin \cup Digit \cup Whitespace \cup AsciiPunct)

\* ^\d+[年月日时分秒]+$
MatchPureTime(s) ==
    \E k \in 1..(Len(s) - 1) :
        AllIn(SubSeq(s, 1, k), Digit) /\ AllIn(SubSeq(s, k + 1, Len(s)), TimeUnit)

\* ^[0-9\.,\s%]+$
MatchPureNumber(s) == Len(s) >= 1 /\ AllIn(s, Digit \cup {".", ",", "%"} \cup Whitespace)

\* ^[好的|是的|嗯|啊|哦|对|不是|没有|有]\s*[。！？]*$  : ONE character of the
\* bracket class, then whitespace, then terminal punctuation
MatchSimpleReply(s) ==
    /\ Len(s) >= 1
    /\ s[1] \in AckClass
    /\ \E k \in 1..Len(s) :
          AllIn(SubSeq(s, 2, k), Whitespace) /\ AllIn(SubSeq(s, k + 1, Len(s)), TerminalPunct)

skip_patterns(s) ==
    MatchPureAscii(s) \/ MatchPureTime(s) \/ MatchPureNumber(s) \/ MatchSimpleReply(s)

\* the length test off by one: len(text) < 2
pre_filter_text_min2(text) ==
    LET t == Strip(text) IN
    IF Len(t) < 2 THEN FALSE
    ELSE IF skip_patterns(t) THEN FALSE
    ELSE IF (~ \E k \in 1..Len(t) : t[k] \in ErrorIndicators) /\ Len(t) < 20 THEN FALSE
    ELSE TRUE

pre_filter_text(text) ==
    LET t == Strip(text) IN
    IF Len(t) < 3 THEN FALSE
    ELSE IF skip_patterns(t) THEN FALSE
    ELSE IF (~ \E k \in 1..Len(t) : t[k] \in ErrorIndicators) /\ Len(t) < 20 THEN FALSE
    ELSE TRUE

(***************************************************************************)
(* GLMClient.quick_fixes, in insertion order, and quick_fix_text.          *)
(***************************************************************************)
Homophone == "mingxian_tongyinzi_cuowu"   \* 明显同音字错误
Typo == "mingxian_cuozi"                  \* 明显错字

quick_fixes == <<
    [type |-> Homophone, pattern |-> <<"fa", "sheng">>, replacement |-> <<"fa", "sheng1">>],   \* 发声 -> 发生
    [type |-> Homophone, pattern |-> <<"zuo", "shi_">>, replacement |-> <<"zuo4", "shi_">>],   \* 做实 -> 坐实
    [type |-> Homophone, pattern |-> <<"yin", "gai">>, replacement |-> <<"ying", "gai">>],     \* 因该 -> 应该
    [type |-> Homophone, pattern |-> <<"zai4", "na">>, replacement |-> <<"zai", "na">>],       \* 再那 -> 在那
    [type |-> Homophone, pattern |-> <<"zai", "xiang">>, replacement |-> <<"zai4", "xiang">>], \* 在想 -> 再想
    [type |-> Homophone, pattern |-> <<"zai", "shuo", "yi", "bian">>,
                         replacement |-> <<"zai4", "shuo", "yi", "bian">>],                    \* 在说一遍 -> 再说一遍
    [type |-> Homophone, pattern |-> <<"zai", "wen", "yi", "xia">>,
                         replacement |-> <<"zai4", "wen", "yi", "xia">>],                      \* 在问一下 -> 再问一下
    [type |-> Homophone, pattern |-> <<"zai", "kan", "kan">>, replacement |-> <<"zai4", "kan", "kan">>], \* 在看看
    [type |-> Homophone, pattern |-> <<"zai", "shi4", "shi4">>, replacement |-> <<"zai4", "shi4", "shi4">>], \* 在试试
    [type |-> Typo, pattern |-> <<"wo", "jue", "de">>, replacement |-> <<"wo", "jue", "de2">>],   \* 我觉的 -> 我觉得
    [type |-> Typo, pattern |-> <<"shuo", "de", "hao">>, replacement |-> <<"shuo", "de2", "hao">>], \* 说的好 -> 说得好
    [type |-> Typo, pattern |-> <<"zuo", "de", "bu", "cuo">>,
                    replacement |-> <<"zuo", "de2", "bu", "cuo">>],                             \* 做的不错
    [type |-> Typo, pattern |-> <<"ting", "de", "hen", "qing", "chu">>,
                    replacement |-> <<"ting", "de2", "hen", "qing", "chu">>],                   \* 听的很清楚
    [type |-> Typo, pattern |-> <<"pao", "de", "hen", "kuai">>,
                    replacement |-> <<"pao", "de2", "hen", "kuai">>],                           \* 跑的很快
    [type |-> Typo, pattern |-> <<"shuo", "de", "dui">>, replacement |-> <<"shuo", "de2", "dui">>], \* 说的对
    [type |-> Typo, pattern |-> <<"xiang", "de", "zhou", "dao">>,
                    replacement |-> <<"xiang", "de2", "zhou", "dao">>]                          \* 想的周到
>>

\* the error is recorded but corrected_text is not assigned the new text
ApplyRule_keeps_text(st, rule) ==
    LET new_text == Replace(st.corrected_text, rule.pattern, rule.replacement) IN
    IF Contains(st.corrected_text, rule.pattern) /\ new_text # st.corrected_text
    THEN [corrected_text |-> st.corrected_text,
          errors |-> Append(st.errors,
                            [type |-> rule.type, original |-> rule.pattern,
                             corrected |-> rule.replacement, confidence |-> 90,
                             reason |-> <<"changjian", rule.type, "cuowu">>])]
    ELSE st

\* one pass of the rule loop of quick_fix_text: rule k applied to the state
\* [corrected_text, errors] left by rules 1..k-1
ApplyRule(st, rule) ==
    LET new_text == Replace(st.corrected_text, rule.pattern, rule.replacement) IN
    IF Contains(st.corrected_text, rule.pattern) /\ new_text # st.corrected_text
    THEN [corrected_text |-> new_text,
          errors |-> Append(st.errors,
                            [type |-> rule.type, original |-> rule.pattern,
                             corrected |-> rule.replacement, confidence |-> 90,
                             reason |-> <<"changjian", rule.type, "cuowu">>])]
    ELSE st    \* literal not present: the re.sub branch substitutes nothing

RECURSIVE ApplyRules(_, _)
ApplyRules(st, k) ==
    IF k > Len(quick_fixes) THEN st ELSE ApplyRules(ApplyRule(st, quick_fixes[k]), k + 1)

\* each error is inserted at the head of the list instead of appended
quick_fix_text_prepends(text) ==
    LET st == ApplyRules([corrected_text |-> text, errors |-> <<>>], 1)
        has_errors == Len(st.errors) > 0
    IN [original_text |-> text,
        corrected_text |-> st.corrected_text,
        has_errors |-> has_errors,
        confidence |-> IF has_errors THEN 90 ELSE 100,
        errors |-> [k \in 1..Len(st.errors) |-> st.errors[Len(st.errors) + 1 - k]],
        suggestions |-> IF has_errors THEN "kuaisu_xiuzheng" ELSE "wuxu_xiuzheng",
        method |-> "quick_fix"]

quick_fix_text(text) ==
    LET st == ApplyRules([corrected_text |-> text, errors |-> <<>>], 1)
        has_errors == Len(st.errors) > 0
    IN [original_text |-> text,
        corrected_text |-> st.corrected_text,
        has_errors |-> has_errors,
        confidence |-> IF has_errors THEN 90 ELSE 100,
        errors |-> st.errors,
        suggestions |-> IF has_errors THEN "kuaisu_xiuzheng" ELSE "wuxu_xiuzheng",
        method |-> "quick_fix"]

(***************************************************************************)
(* The remote service.  One answer to one session.post call.               *)
(*   kind "timeout", "connection_error" : session.post raises              *)
(*   kind "http_error"       : a status code other than 200                *)
(*   kind "body_not_json"    : status 200, response.json() raises          *)
(*   kind "no_choices"       : status 200, JSON body without choices       *)
(*   kind "content"          : status 200, choices[0].message.content is   *)
(*                             a string of the given shape                 *)
(* Shapes of a content string, by what find('{'), rfind('}') and           *)
(* json.loads make of it:                                                  *)
(*   "empty"      the empty string                                         *)
(*   "prose"      no braces, not JSON                                      *)
(*   "scalar"     no braces, valid JSON that is not an object ([1], 5)     *)
(*   "bad_braces" braces around text that is not JSON                      *)
(*   "object"     exactly one JSON object (obj)                            *)
(*   "wrapped"    prose, then a JSON object (obj), then prose              *)
(***************************************************************************)
EmptyDict == [k \in {} |-> TRUE]

HasKey(d, k) == k \in DOMAIN d

\* dict.get(k, default)
Get(d, k, default) == IF k \in DOMAIN d THEN d[k] ELSE default

\* d.copy() followed by .update(r)
Update(d, r) == [k \in (DOMAIN d) \cup (DOMAIN r) |-> IF k \in DOMAIN r THEN r[k] ELSE d[k]]

RemoteDetail ==
    [type |-> "tongyinzi", original |-> <<"de">>, corrected |-> <<"de2">>,
     confidence |-> 80, reason |-> <<"remote">>]

\* the JSON objects the remote service may put in its answer about text t
RemoteObjects(t) == {
    \* the schema of the prompt, no error found
    [original_text |-> t, corrected_text |-> t, has_errors |-> FALSE, confidence |-> 95],
    \* the schema of the prompt, an error found and rewritten
    [original_text |-> t, corrected_text |-> Append(t, "juhao"), has_errors |-> TRUE,
     confidence |-> 80, errors |-> <<RemoteDetail>>],
    \* an object with every field missing
    EmptyDict,
    \* flags an error but rewrites nothing and lists nothing, no confidence
    [corrected_text |-> t, has_errors |-> TRUE],
    \* a confidence outside [0, 1]
    [corrected_text |-> t, has_errors |-> FALSE, confidence |-> 150],
    \* an object that also carries keys named like a segment's own fields
    [corrected_text |-> t, has_errors |-> FALSE, confidence |-> 90,
     speaker |-> "remote", text |-> <<" ">>],
    \* an object that carries a key named error
    [corrected_text |-> t, has_errors |-> FALSE, confidence |-> 90, error |-> "note"]
}

Failures == {
    [kind |-> "timeout", shape |-> "none", obj |-> EmptyDict],
    [kind |-> "connection_error", shape |-> "none", obj |-> EmptyDict],
    [kind |-> "http_error", shape |-> "none", obj |-> EmptyDict]
}

Responses(t) ==
    Failures
    \cup {[kind |-> k, shape |-> "none", obj |-> EmptyDict] : k \in {"body_not_json", "no_choices"}}
    \cup {[kind |-> "content", shape |-> sh, obj |-> EmptyDict] :
             sh \in {"empty", "prose", "scalar", "bad_braces"}}
    \cup {[kind |-> "content", shape |-> "object", obj |-> o] : o \in RemoteObjects(t)}
    \cup {[kind |-> "content", shape |-> "wrapped", obj |-> o] :
             o \in {x \in RemoteObjects(t) : HasKey(x, "errors")}}

\* the answer used where no remote call is made
NoResponse == [kind |-> "none", shape |-> "none", obj |-> EmptyDict]

(***************************************************************************)
(* GLMClient.detect_and_correct_text_errors.                               *)
(* A call either returns a dict or lets an exception escape.               *)
(***************************************************************************)
Returned(d) == [raised |-> "none", value |-> d]
Raised(e) == [raised |-> e, value |-> EmptyDict]

QuickFixMaxLen == 50     \* len(text_segment) < 50

\* the result returned when pre_filter_text says skip
PreFilterResult(text) ==
    [original_text |-> text, corrected_text |-> text, has_errors |-> FALSE,
     confidence |-> 100, errors |-> <<>>, suggestions |-> "yuguolv_tiaoguo",
     method |-> "pre_filter"]

\* the length test admits one character more: len(text_segment) <= 50
QuickFixSuffices_le(text, quick_result) ==
    quick_result.has_errors /\ Len(text) <= QuickFixMaxLen

\* if quick_result['has_errors'] and len(text_segment) < 50: return quick_result
QuickFixSuffices(text, quick_result) ==
    quick_result.has_errors /\ Len(text) < QuickFixMaxLen

\* the call reaches session.post: neither early return is taken
NeedsRemote(text) ==
    /\ pre_filter_text(text)
    /\ ~ QuickFixSuffices(text, quick_fix_text(text))

\* the exception a remote answer makes the try block raise ("none": no exception)
ExceptionOf(resp, quick_result) ==
    CASE resp.kind = "timeout" -> "Timeout"
      [] resp.kind = "connection_error" -> "ConnectionError"
      [] resp.kind = "body_not_json" -> "JSONDecodeError"   \* response.json(), outside the inner try
      [] resp.kind = "no_choices" -> "KeyError"
      [] resp.kind = "content" /\ resp.shape = "scalar" ->
             \* json.loads gave a list/number: .get or item assignment fails
             IF quick_result.has_errors THEN "AttributeError" ELSE "TypeError"
      [] OTHER -> "none"

\* narrower handler: only the exceptions of the requests library are caught
except_RequestException(text, quick_result, e) ==
    IF e \in {"Timeout", "ConnectionError"}
    THEN Returned(IF quick_result.has_errors THEN quick_result
                  ELSE [original_text |-> text, error |-> "chuli_yichang",
                        has_errors |-> FALSE, confidence |-> 0])
    ELSE Raised(e)

\* except Exception as e: the quick-fix result, or a failure dict
except_Exception(text, quick_result, e) ==
    Returned(IF quick_result.has_errors THEN quick_result
             ELSE [original_text |-> text, error |-> "chuli_yichang",
                   has_errors |-> FALSE, confidence |-> 0])

\* else branch of status_code == 200
StatusFailure(text, quick_result) ==
    IF quick_result.has_errors THEN quick_result
    ELSE [original_text |-> text, error |-> "api_diaoyong_shibai",
          has_errors |-> FALSE, confidence |-> 0]

\* except json.JSONDecodeError
ParseFallback(text, quick_result) ==
    IF quick_result.has_errors THEN quick_result
    ELSE [original_text |-> text, corrected_text |-> text, has_errors |-> FALSE,
          confidence |-> 50, errors |-> <<>>, suggestions |-> "api_jiexi_shibai",
          method |-> "fallback"]

\* json_start != -1 and json_end != 0 : the substring is parsed, else the whole
\* content; TRUE when json.loads returns, FALSE when it raises JSONDecodeError
JsonLoads(shape) ==
    IF shape \in {"bad_braces", "object", "wrapped"}
    THEN shape \in {"object", "wrapped"}
    ELSE shape = "scalar"

\* the two error lists are joined in the wrong order: remote entries first
MergeParsed_remote_first(text, quick_result, parsed_result) ==
    IF quick_result.has_errors /\ ~ Get(parsed_result, "has_errors", FALSE)
    THEN quick_result
    ELSE LET merged == IF quick_result.has_errors
                       THEN Update(parsed_result,
                                   [errors |-> Get(parsed_result, "errors", <<>>)
                                                 \o quick_result.errors])
                       ELSE parsed_result
             tagged == Update(merged, [method |-> "api"])
         IN IF HasKey(tagged, "original_text") THEN tagged
            ELSE Update(tagged, [original_text |-> text])

\* merge of the parsed remote object with the quick-fix result
MergeParsed(text, quick_result, parsed_result) ==
    IF quick_result.has_errors /\ ~ Get(parsed_result, "has_errors", FALSE)
    THEN quick_result
    ELSE LET merged == IF quick_result.has_errors
                       THEN Update(parsed_result,
                                   [errors |-> quick_result.errors
                                                 \o Get(parsed_result, "errors", <<>>)])
                       ELSE parsed_result
             tagged == Update(merged, [method |-> "api"])
         IN IF HasKey(tagged, "original_text") THEN tagged
            ELSE Update(tagged, [original_text |-> text])

detect_and_correct_text_errors(text, resp) ==
    IF ~ pre_filter_text(text) THEN Returned(PreFilterResult(text))
    ELSE LET quick_result == quick_fix_text(text) IN
         IF QuickFixSuffices(text, quick_result) THEN Returned(quick_result)
         ELSE IF ExceptionOf(resp, quick_result) # "none"
              THEN except_Exception(text, quick_result, ExceptionOf(resp, quick_result))
         ELSE IF resp.kind = "http_error" THEN Returned(StatusFailure(text, quick_result))
         ELSE IF ~ JsonLoads(resp.shape) THEN Returned(ParseFallback(text, quick_result))
         ELSE Returned(MergeParsed(text, quick_result, resp.obj))

(***************************************************************************)
(* main.py: the attributes of the client object, and the method that       *)
(* add_high_api_methods binds in place of detect_and_correct_text_errors.  *)
(***************************************************************************)
GLMClientAttrs ==
    {"api_key", "base_url", "session", "skip_patterns", "quick_fixes",
     "pre_filter_text", "quick_fix_text", "detect_and_correct_text_errors",
     "batch_detect_and_correct_segments", "test_connection"}

HighApiAttrs ==
    {"high_api_mode", "api_usage_ratio", "max_tokens", "use_detailed_prompts",
     "min_text_length", "_get_detailed_prompt", "_should_use_api_aggressive",
     "_has_potential_errors", "_make_api_request_high_tokens"}

\* _make_api_request_high_tokens returns None unless the status is 200 and
\* glm_client._extract_content_safely exists; without a response the method
\* falls back to local_result tagged local_only
detect_and_correct_text_errors_high_api(attrs, text_segment) ==
    IF "comprehensive_local_processing" \notin attrs
    THEN Raised("AttributeError")
    ELSE Returned([original_text |-> Strip(text_segment),
                   corrected_text |-> Strip(text_segment),
                   has_errors |-> FALSE, method |-> "local_only"])

(***************************************************************************)
(* Inputs of the batch pipeline.                                           *)
(***************************************************************************)
BlankText == <<" ">>                                   \* only whitespace
ShortText == <<"hao", "de">>                           \* 好的
QuickText == <<"wo", "jue", "de", "bu", "cuo">>        \* 我觉的不错
PlainText == <<"wo", "de", "hao">>                     \* 我的好
LongText == QuickText \o [k \in 1..45 |-> "ma"]        \* 我觉的不错 + 45 characters

SegTexts == {BlankText, ShortText, QuickText, PlainText, LongText}
Speakers == {"fayanren1"}

Segments == [speaker : Speakers, timestamp : {"04:49"}, text : SegTexts]

SegLists == UNION {[1..n -> Segments] : n \in 0..MaxSegs}

DefaultMaxRetries == 2

IsBlank(text) == Strip(text) = <<>>

\* valid_segments of ErrorDetector.detect_and_correct_file
RECURSIVE valid_segments(_)
valid_segments(ss) ==
    IF ss = <<>> THEN <<>>
    ELSE IF IsBlank(Head(ss).text) THEN valid_segments(Tail(ss))
    ELSE <<Head(ss)>> \o valid_segments(Tail(ss))

(***************************************************************************)
(* State.                                                                  *)
(***************************************************************************)
VARIABLES
    entry,          \* who drives the client: "main", "detector" or "client"
    client_attrs,   \* attribute names present on the GLMClient object
    segs,           \* the segment list of the caller (parsed file or argument)
    max_retries,    \* argument of batch_detect_and_correct_segments
    pc,             \* "start", "configured", "loop", "returned", "raised", "file_done", "direct"
    segments,       \* batch_detect_and_correct_segments: the segments argument
    i,              \* ... 1-based index of the segment being processed
    attempt,        \* ... value of the attempt loop variable for the next attempt
    result,         \* ... local variable result (Unbound before its first assignment)
    results,        \* ... local list results
    stats,          \* ... api_calls, quick_fixes, skipped
    exc,            \* exception that escaped the batch operation, or "none"
    events,         \* remote requests and sleeps, in the order they happened
    remote_seen,    \* classes of remote answers received so far
    tries,          \* requests and retry pauses of the segment attempted last
    file_status,    \* process_single_file: status of its return value
    file_out,       \* ... its only_correct argument, the files written, the report's counts
    call,           \* a direct call of one client method on one text
    run             \* main(): the files of one invocation and the state of its file loop

vars == <<entry, client_attrs, segs, max_retries, pc, segments, i, attempt, result,
          results, stats, exc, events, remote_seen, tries, file_status, file_out, call, run>>

Unbound == [unbound |-> TRUE]

\* no method has been called on text t yet
NoCall(t) == [op |-> "none", text |-> t, resp |-> NoResponse, requested |-> FALSE,
              out |-> EmptyDict]

\* no file loop is running
NoRun == [pc |-> "none"]

MethodReplaced == "_make_api_request_high_tokens" \in client_attrs

\* class of a remote answer: failed (no 200 answer), normal (a JSON object in
\* the content), malformed (a 200 answer that is anything else)
ClassOf(resp) ==
    IF resp \in Failures THEN "failed"
    ELSE IF resp.kind = "content" /\ resp.shape \in {"object", "wrapped"} THEN "normal"
    ELSE "malformed"

\* no file has been processed
NoFile == [only_correct |-> FALSE, written |-> {}, report_path |-> "None",
           report |-> EmptyDict, corrected |-> <<>>]

BatchIdle ==
    /\ segments = <<>>
    /\ i = 1
    /\ attempt = 0
    /\ result = Unbound
    /\ results = <<>>
    /\ stats = [api_calls |-> 0, quick_fixes |-> 0, skipped |-> 0]
    /\ exc = "none"
    /\ events = <<>>
    /\ remote_seen = {}
    /\ tries = <<>>
    /\ file_status = "none"
    /\ file_out = NoFile

Init ==
    /\ entry \in {"main", "detector", "client"}
    /\ client_attrs = GLMClientAttrs
    /\ segs \in SegLists
    /\ max_retries \in (IF entry = "client" THEN 0..MaxRetries ELSE {DefaultMaxRetries})
    /\ pc = "start"
    /\ BatchIdle
    /\ call = NoCall(<<>>)
    /\ run = NoRun

(***************************************************************************)
(* main.py: configure_high_api_usage, run by main() before any file.       *)
(***************************************************************************)
configure_high_api_usage ==
    /\ entry \in {"main", "files"}
    /\ pc = "start"
    /\ client_attrs' = client_attrs \cup HighApiAttrs
    /\ pc' = "configured"
    /\ UNCHANGED <<entry, segs, max_retries, segments, i, attempt, result, results,
                   stats, exc, events, remote_seen, tries, file_status, file_out, call, run>>

(***************************************************************************)
(* Entry into batch_detect_and_correct_segments: from                      *)
(* ErrorDetector.detect_and_correct_file with the non-blank segments and   *)
(* the default max_retries, or from a caller of the client.                *)
(***************************************************************************)
BeginBatch ==
    /\ \/ entry = "main" /\ pc = "configured"
       \/ entry \in {"detector", "client"} /\ pc = "start"
    /\ segments' = IF entry = "client" THEN segs ELSE valid_segments(segs)
    /\ pc' = "loop"
    /\ UNCHANGED <<entry, client_attrs, segs, max_retries, i, attempt, result, results,
                   stats, exc, events, remote_seen, tries, file_status, file_out, call, run>>

\* the dict the loop appends for a blank text
EmptyResult(segment) ==
    Update(segment, [has_errors |-> FALSE, confidence |-> 100,
                     corrected_text |-> segment.text, method |-> "empty"])

EmptySegment ==
    /\ pc = "loop"
    /\ i <= Len(segments)
    /\ IsBlank(segments[i].text)
    /\ result' = EmptyResult(segments[i])
    /\ results' = Append(results, EmptyResult(segments[i]))
    /\ stats' = [stats EXCEPT !.skipped = @ + 1]
    /\ i' = i + 1
    /\ UNCHANGED <<entry, client_attrs, segs, max_retries, pc, segments, attempt,
                   exc, events, remote_seen, tries, file_status, file_out, call, run>>

\* the statistics branch after each call
CountMethod(st, r) ==
    LET method == Get(r, "method", "unknown") IN
    IF method = "api" THEN [st EXCEPT !.api_calls = @ + 1]
    ELSE IF method = "quick_fix" THEN [st EXCEPT !.quick_fixes = @ + 1]
    ELSE IF method \in {"pre_filter", "empty"} THEN [st EXCEPT !.skipped = @ + 1]
    ELSE st

\* result = self.detect_and_correct_text_errors(text), for the segment texts:
\* the value the original method returns for each text and remote answer
DetectOf ==
    [t \in SegTexts |->
        [resp \in Responses(t) \cup {NoResponse} |-> detect_and_correct_text_errors(t, resp)]]

\* the segment texts for which the original method sends a request
RemoteTexts == {t \in SegTexts : NeedsRemote(t)}

\* the method currently bound to glm_client.detect_and_correct_text_errors
CallDetect(text, resp) ==
    IF MethodReplaced THEN detect_and_correct_text_errors_high_api(client_attrs, text)
    ELSE DetectOf[text][resp]

\* the bound method sends a request for this text
SendsRequest(text) == ~ MethodReplaced /\ text \in RemoteTexts

RetryDelay == 500      \* time.sleep(0.5), in milliseconds
ApiDelay == 50         \* time.sleep(0.05)

\* the remote call of a request failed: timeout, connection error, status not 200
AnswerFailed(resp) == ClassOf(resp) = "failed"

\* entries of events: a request of segment s; a time.sleep of n milliseconds
RequestEvent(s) == [ev |-> "request", seg |-> s, n |-> 1]

SleepEvent(s, n) == [ev |-> "sleep", seg |-> s, n |-> n]

\* entries of tries: a request of segment s, whether its remote call failed
\* and whether the result of the call carries 'error'; the pause before a retry
Try(s, resp, r) ==
    [ev |-> "request", seg |-> s, n |-> 1, failed |-> AnswerFailed(resp),
     error |-> HasKey(r.value, "error")]

Pause(s, n) == [ev |-> "sleep", seg |-> s, n |-> n, failed |-> FALSE, error |-> FALSE]

\* the break is missing: the loop always runs to its last pass
LastAttempt_no_break(r, n, retries) == n = retries - 1

\* the attempt loop ends with pass n: break, or range(retries) is exhausted
LastAttempt(r, n, retries) == ~ HasKey(r.value, "error") \/ n = retries - 1

\* one pass of the attempt loop for segment i, and, when the loop ends with
\* it, the code after the loop
Attempt ==
    /\ pc = "loop"
    /\ i <= Len(segments)
    /\ ~ IsBlank(segments[i].text)
    /\ attempt < max_retries
    /\ LET text == segments[i].text IN
       \E resp \in (IF SendsRequest(text) THEN Responses(text) ELSE {NoResponse}) :
          LET r == CallDetect(text, resp)
              sent == IF SendsRequest(text) THEN <<RequestEvent(i)>> ELSE <<>>
              last == LastAttempt(r, attempt, max_retries)
              pause == IF ~ last THEN <<SleepEvent(i, RetryDelay)>>
                       ELSE IF Get(r.value, "method", "none") = "api"
                            THEN <<SleepEvent(i, ApiDelay)>>
                            ELSE <<>>
              tried == (IF attempt = 0 THEN <<>> ELSE tries)
                          \o (IF SendsRequest(text) THEN <<Try(i, resp, r)>> ELSE <<>>)
          IN /\ remote_seen' = IF SendsRequest(text)
                               THEN remote_seen \cup {ClassOf(resp)} ELSE remote_seen
             /\ IF r.raised # "none"
                THEN /\ pc' = "raised"
                     /\ exc' = r.raised
                     /\ events' = events \o sent
                     /\ tries' = tried
                     /\ UNCHANGED <<i, attempt, result, results, stats>>
                ELSE /\ result' = r.value
                     /\ stats' = CountMethod(stats, r.value)
                     /\ events' = events \o sent \o pause
                     /\ tries' = IF last THEN tried ELSE Append(tried, Pause(i, RetryDelay))
                     /\ IF last
                        THEN /\ results' = Append(results, Update(segments[i], r.value))
                             /\ i' = i + 1
                             /\ attempt' = 0
                        ELSE /\ attempt' = attempt + 1
                             /\ UNCHANGED <<i, results>>
                     /\ UNCHANGED <<pc, exc>>
    /\ UNCHANGED <<entry, client_attrs, segs, max_retries, segments, file_status, file_out,
                   call, run>>

\* range(0) is empty: the attempt loop is skipped and the code after it uses
\* whatever result holds
NoAttempt ==
    /\ pc = "loop"
    /\ i <= Len(segments)
    /\ ~ IsBlank(segments[i].text)
    /\ max_retries = 0
    /\ IF result = Unbound
       THEN /\ pc' = "raised"
            /\ exc' = "UnboundLocalError"
            /\ UNCHANGED <<i, results, events>>
       ELSE /\ results' = Append(results, Update(segments[i], result))
            /\ i' = i + 1
            /\ events' = IF Get(result, "method", "none") = "api"
                         THEN Append(events, SleepEvent(i, ApiDelay))
                         ELSE events
            /\ UNCHANGED <<pc, exc>>
    /\ UNCHANGED <<entry, client_attrs, segs, max_retries, segments, attempt, result,
                   stats, remote_seen, tries, file_status, file_out, call, run>>

\* after the segment loop: the statistics are printed (api_calls divided by
\* total_segments) and results is returned
FinishBatch ==
    /\ pc = "loop"
    /\ i > Len(segments)
    /\ IF Len(segments) = 0
       THEN pc' = "raised" /\ exc' = "ZeroDivisionError"
       ELSE pc' = "returned" /\ exc' = exc
    /\ UNCHANGED <<entry, client_attrs, segs, max_retries, segments, i, attempt, result,
                   results, stats, events, remote_seen, tries, file_status, file_out, call, run>>

(***************************************************************************)
(* main.py: process_single_file turns the outcome of                       *)
(* detect_and_correct_file into a status.                                  *)
(***************************************************************************)
\* the result indices with a given method tag
WithMethod(rs, m) == {k \in 1..Len(rs) : Get(rs[k], "method", "None") = m}

\* the counts _generate_correction_report writes and
\* _print_correction_summary prints
CorrectionCounts(rs) ==
    LET corrected == Cardinality({k \in 1..Len(rs) : Get(rs[k], "has_errors", FALSE)})
        errors == Cardinality({k \in 1..Len(rs) : HasKey(rs[k], "error")})
    IN [total_segments |-> Len(rs),
        corrected_segments |-> corrected,
        api_errors |-> errors,
        unchanged |-> Len(rs) - corrected - errors,
        batch_api_count |-> Cardinality(WithMethod(rs, "batch_api")),
        quick_fix_count |-> Cardinality(WithMethod(rs, "quick_fix")),
        pre_filter_count |-> Cardinality(WithMethod(rs, "pre_filter"))]

\* what the loop of _generate_corrected_file writes for one result: the
\* speaker line and the text line, or nothing
CorrectedEntry(r) ==
    LET speaker == Get(r, "speaker", "Unknown")
        timestamp == Get(r, "timestamp", "Unknown")
    IN IF HasKey(r, "error")
       THEN <<[speaker |-> speaker, timestamp |-> timestamp,
               text |-> Get(r, "text", <<"chuli_chucuo">>), marked |-> TRUE]>>
       ELSE IF Get(r, "has_errors", FALSE) /\ Get(r, "corrected_text", <<>>) # <<>>
       THEN <<[speaker |-> speaker, timestamp |-> timestamp,
               text |-> r.corrected_text, marked |-> FALSE]>>
       ELSE IF Strip(Get(r, "text", <<>>)) # <<>>
       THEN <<[speaker |-> speaker, timestamp |-> timestamp,
               text |-> r.text, marked |-> FALSE]>>
       ELSE <<>>    \* only non-blank text is written

\* the entries of the corrected file, in the order written
RECURSIVE generate_corrected_file(_)
generate_corrected_file(rs) ==
    IF rs = <<>> THEN <<>>
    ELSE CorrectedEntry(Head(rs)) \o generate_corrected_file(Tail(rs))

\* detect_and_correct_file after the batch operation returned: the report
\* file, then the corrected file, then the summary
process_single_file ==
    /\ entry \in {"main", "detector"}
    /\ pc \in {"returned", "raised"}
    /\ file_status' = IF pc = "raised" THEN "error" ELSE "success"
    /\ \E only_correct \in BOOLEAN :
          file_out' = IF pc = "raised"
                      THEN [NoFile EXCEPT !.only_correct = only_correct]
                      ELSE [only_correct |-> only_correct,
                            written |-> {"report", "corrected"},
                            report_path |-> IF only_correct THEN "None" ELSE "report",
                            report |-> CorrectionCounts(results),
                            corrected |-> generate_corrected_file(results)]
    /\ pc' = "file_done"
    /\ UNCHANGED <<entry, client_attrs, segs, max_retries, segments, i, attempt, result,
                   results, stats, exc, events, remote_seen, tries, call, run>>

Next ==
    \/ configure_high_api_usage
    \/ BeginBatch
    \/ EmptySegment
    \/ Attempt
    \/ NoAttempt
    \/ FinishBatch
    \/ process_single_file

Spec == Init /\ [][Next]_vars

\* the interpreter runs the method's next statement as long as there is one:
\* no step of the batch operation waits for anything but the remote call,
\* which returns or times out (timeout=20)
SpecLive == Init /\ [][Next]_vars /\ WF_vars(Next)

(***************************************************************************)
(* Direct calls of the client's methods on one text.                       *)
(***************************************************************************)
\* the characters the enumerated texts are made of
TextAlphabet == {" ", "x", "1", "nian", "hao", "de", "wo", "jue", "zai", "juhao"}

TextsUpTo(n) == UNION {[1..k -> TextAlphabet] : k \in 0..n}

\* 好的 是的 嗯 啊 哦 对 不是 没有 有
AckWords == {<<"hao", "de">>, <<"shi", "de">>, <<"en">>, <<"a">>, <<"o">>, <<"dui">>,
             <<"bu", "shi">>, <<"mei", "you">>, <<"you">>}

\* an acknowledgment word followed by at most MaxPunct terminal punctuation marks
AckTexts ==
    {w \o p : w \in AckWords, p \in UNION {[1..k -> TerminalPunct] : k \in 0..MaxPunct}}

\* texts around the length threshold of pre_filter_text: n characters without
\* an error-prone character, n Latin letters, and n characters padded by a blank
Repeat(c, n) == [k \in 1..n |-> c]

LengthTexts ==
    UNION {{Repeat("ma", n), Repeat("x", n), Repeat("ma", n) \o <<" ">>,
            <<"de">> \o Repeat("ma", n - 1)} : n \in {19, 20}}

\* the texts of test_glm_client: 我觉的这个方案不错 and 在说一遍
TestTexts == {<<"wo", "jue", "de", "zhe", "ge", "fang", "an", "bu", "cuo">>,
              <<"zai", "shuo", "yi", "bian">>}

\* texts over the characters of the rules that rewrite 在 and 再 (再那, 在想,
\* 在看看), alone and with 我觉的 before or after them
QuickAlphabet == {"zai", "zai4", "na", "xiang", "kan"}

QuickTexts ==
    LET over == UNION {[1..k -> QuickAlphabet] : k \in 0..MaxQuickLen}
        room == {t \in over : Len(t) + 3 <= MaxQuickLen}
    IN over \cup {<<"wo", "jue", "de">> \o t : t \in room}
            \cup {t \o <<"wo", "jue", "de">> : t \in room}

\* texts around the length limit of the quick-fix return: 49 characters with
\* 我觉的, 50 characters without any pattern
QuickEdgeTexts == {SubSeq(LongText, 1, Len(LongText) - 1), Repeat("ma", Len(LongText))}

\* 我觉的再那: a pattern of 明显错字 ahead of a pattern of 明显同音字错误
MixedText == <<"wo", "jue", "de", "zai4", "na">>

\* every literal pattern of quick_fixes followed by 了, and MixedText
PatternTexts ==
    {quick_fixes[k].pattern \o <<"le">> : k \in 1..Len(quick_fixes)} \cup {MixedText}

InputTexts ==
    TextsUpTo(MaxLen) \cup AckTexts \cup SegTexts \cup LengthTexts \cup TestTexts
        \cup QuickTexts \cup QuickEdgeTexts \cup PatternTexts

InitText ==
    /\ entry = "direct"
    /\ client_attrs = GLMClientAttrs
    /\ segs = <<>>
    /\ max_retries = DefaultMaxRetries
    /\ pc = "direct"
    /\ BatchIdle
    /\ call \in {NoCall(t) : t \in InputTexts}
    /\ run = NoRun

BatchUnchanged ==
    UNCHANGED <<entry, client_attrs, segs, max_retries, pc, segments, i, attempt, result,
                results, stats, exc, events, remote_seen, tries, file_status,
                file_out, run>>

CallPreFilter ==
    /\ pc = "direct"
    /\ call.op = "none"
    /\ call' = [call EXCEPT !.op = "pre_filter_text",
                            !.out = [returns |-> pre_filter_text(call.text)]]
    /\ BatchUnchanged

CallQuickFix ==
    /\ pc = "direct"
    /\ call.op = "none"
    /\ call' = [call EXCEPT !.op = "quick_fix_text", !.out = quick_fix_text(call.text)]
    /\ BatchUnchanged

CallDetectDirect ==
    /\ pc = "direct"
    /\ call.op = "none"
    /\ \E resp \in (IF NeedsRemote(call.text) THEN Responses(call.text) ELSE {NoResponse}) :
          call' = [call EXCEPT !.op = "detect_and_correct_text_errors",
                               !.resp = resp,
                               !.requested = NeedsRemote(call.text),
                               !.out = detect_and_correct_text_errors(call.text, resp).value]
    /\ BatchUnchanged

\* the text test_connection hands to the detection method: 测试连接
ConnectionProbe == <<"ce", "shi4", "lian", "jie">>

\* the answers a request can meet while the remote service is unreachable,
\* rejects the request, or answers it
AnswersWhen(remote, t) ==
    IF remote = "unreachable"
    THEN {x \in Failures : x.kind \in {"timeout", "connection_error"}}
    ELSE IF remote = "rejecting" THEN {x \in Failures : x.kind = "http_error"}
    ELSE Responses(t) \ Failures

\* test_connection, on a client as constructed ("own") or as main() has
\* configured it ("high_api"); an exception of the call is caught and gives False
test_connection ==
    /\ pc = "direct"
    /\ call.op = "none"
    /\ \E bound \in {"own", "high_api"}, remote \in {"unreachable", "rejecting", "answering"} :
          LET sends == bound = "own" /\ NeedsRemote(ConnectionProbe) IN
          \E resp \in (IF sends THEN AnswersWhen(remote, ConnectionProbe) ELSE {NoResponse}) :
             LET r == IF bound = "own"
                      THEN detect_and_correct_text_errors(ConnectionProbe, resp)
                      ELSE detect_and_correct_text_errors_high_api(
                               GLMClientAttrs \cup HighApiAttrs, ConnectionProbe)
             IN call' = [op |-> "test_connection",
                         text |-> ConnectionProbe,
                         resp |-> resp,
                         requested |-> sends,
                         out |-> [returns |-> r.raised = "none" /\ ~ HasKey(r.value, "error"),
                                  bound |-> bound, remote |-> remote]]
    /\ BatchUnchanged

NextText == CallPreFilter \/ CallQuickFix \/ CallDetectDirect \/ test_connection

SpecText == InitText /\ [][NextText]_vars

(***************************************************************************)
(* main.py: the file loop of main(), serial or on a thread pool.           *)
(***************************************************************************)
\* what a transcript file parses to: no segment, or one segment
FileContents == {<<>>, <<[speaker |-> "fayanren1", timestamp |-> "04:49", text |-> PlainText]>>}

FileLists == UNION {[1..n -> FileContents] : n \in 1..MaxFiles}

\* --parallel: not given, 4, 9
ParallelValues == {0, 4, 9}

PoolThreshold == 8     \* args.parallel > 8

\* status of the dict process_single_file returns for a file, with the
\* method main() has bound to the client: the batch operation raises on an
\* empty segment list, and raises whatever the bound method raises on the
\* first segment
StatusOf(attrs, ss) ==
    LET vs == valid_segments(ss) IN
    IF vs = <<>> THEN "error"
    ELSE IF detect_and_correct_text_errors_high_api(attrs, vs[1].text).raised # "none"
         THEN "error"
         ELSE "success"

InitFiles ==
    /\ entry = "files"
    /\ client_attrs = GLMClientAttrs
    /\ segs = <<>>
    /\ max_retries = DefaultMaxRetries
    /\ pc = "start"
    /\ BatchIdle
    /\ call = NoCall(<<>>)
    /\ \E fs \in FileLists, par \in ParallelValues, coe \in BOOLEAN :
          run = [pc |-> "start", files |-> fs, parallel |-> par, continue_on_error |-> coe,
                 task |-> [f \in 1..Len(fs) |-> "none"], order |-> <<>>, taken |-> 0,
                 next |-> 1, results |-> <<>>, aborted |-> FALSE]

FilesUnchanged ==
    UNCHANGED <<entry, client_attrs, segs, max_retries, pc, segments, i, attempt, result,
                results, stats, exc, events, remote_seen, tries, file_status, file_out, call>>

\* results = [] and the choice of the path; on the pool path every file is
\* submitted before the first result is collected
StartFiles ==
    /\ entry = "files"
    /\ pc = "configured"
    /\ run.pc = "start"
    /\ run' = IF run.parallel > PoolThreshold
              THEN [run EXCEPT !.pc = "collect",
                               !.task = [f \in 1..Len(run.files) |-> "submitted"]]
              ELSE [run EXCEPT !.pc = "serial"]
    /\ FilesUnchanged

\* the entry results.append receives for file f
FileResult(f) == [file |-> f, status |-> StatusOf(client_attrs, run.files[f])]

\* one pass of the serial loop
SerialFile ==
    /\ run.pc = "serial"
    /\ run.next <= Len(run.files)
    /\ LET r == FileResult(run.next)
           stop == r.status = "error" /\ ~ run.continue_on_error
       IN run' = [run EXCEPT !.task[run.next] = "done",
                             !.results = Append(@, r),
                             !.next = @ + 1,
                             !.aborted = stop,
                             !.pc = IF stop \/ run.next = Len(run.files)
                                    THEN "done" ELSE "serial"]
    /\ FilesUnchanged

\* a pool thread takes a submitted file and calls process_single_file
WorkerStart(f) ==
    /\ run.pc \in {"collect", "shutdown"}
    /\ run.task[f] = "submitted"
    /\ Cardinality({g \in 1..Len(run.files) : run.task[g] = "running"}) < run.parallel
    /\ run' = [run EXCEPT !.task[f] = "running"]
    /\ FilesUnchanged

\* process_single_file returns on the pool thread: the future is completed
WorkerFinish(f) ==
    /\ run.pc \in {"collect", "shutdown"}
    /\ run.task[f] = "running"
    /\ run' = [run EXCEPT !.task[f] = "done", !.order = Append(@, f)]
    /\ FilesUnchanged

\* one pass of the as_completed loop: the next completed future
Collect ==
    /\ run.pc = "collect"
    /\ run.taken < Len(run.order)
    /\ LET r == FileResult(run.order[run.taken + 1])
           stop == r.status = "error" /\ ~ run.continue_on_error
       IN run' = [run EXCEPT !.results = Append(@, r),
                             !.taken = @ + 1,
                             !.aborted = stop,
                             !.pc = IF stop \/ run.taken + 1 = Len(run.files)
                                    THEN "shutdown" ELSE "collect"]
    /\ FilesUnchanged

\* leaving the with block: shutdown(wait=True) returns when every submitted
\* file has been run
Shutdown ==
    /\ run.pc = "shutdown"
    /\ \A f \in 1..Len(run.files) : run.task[f] = "done"
    /\ run' = [run EXCEPT !.pc = "done"]
    /\ FilesUnchanged

NextFiles ==
    \/ configure_high_api_usage
    \/ StartFiles
    \/ SerialFile
    \/ \E f \in 1..Len(run.files) : WorkerStart(f)
    \/ \E f \in 1..Len(run.files) : WorkerFinish(f)
    \/ Collect
    \/ Shutdown

SpecFiles == InitFiles /\ [][NextFiles]_vars

(***************************************************************************)
(* Properties.                                                             *)
(***************************************************************************)
\* the batch operation ran with the client's own method and at least one attempt
OwnMethodRun == ~ MethodReplaced /\ max_retries >= 1

\* indices of the segments for which the original method sends a request
RemoteIndices == {k \in 1..Len(segments) : segments[k].text \in RemoteTexts}

\* C1: if every remote call of the run fails (timeout, connection error or a
\* status other than 200), the batch operation returns one result per input
\* segment, and every segment that was sent to the remote service has a
\* result whose corrected_text is its original text and whose method tag
\* marks it as failed.
C1_FailSafe ==
    (pc = "returned" /\ OwnMethodRun /\ remote_seen \subseteq {"failed"}) =>
        /\ Len(results) = Len(segments)
        /\ \A k \in RemoteIndices :
              /\ HasKey(results[k], "corrected_text")
              /\ results[k].corrected_text = segments[k].text
              /\ Get(results[k], "method", "none") = "failed"

\* C2: for a non-empty segment list, max_retries >= 1 and any behaviour of the
\* remote service, the batch operation returns normally: no exception escapes,
\* and every segment ends with a corrected text or with its original text.
C2_ReturnsNormally ==
    (OwnMethodRun /\ Len(segments) >= 1) =>
        /\ pc # "raised"
        /\ exc = "none"
        /\ pc = "returned" =>
              /\ Len(results) = Len(segments)
              /\ \A k \in 1..Len(results) :
                    \/ HasKey(results[k], "corrected_text")
                    \/ Get(results[k], "original_text", <<>>) = segments[k].text

\* C2 witness: a run that returned after a failed remote call and after a 200
\* answer that was not a JSON object.
C2_Witness ==
    /\ pc = "returned"
    /\ OwnMethodRun
    /\ {"failed", "malformed"} \subseteq remote_seen

\* C3: through main(), where configure_high_api_usage has replaced the
\* correction method, a file with at least one non-blank segment yields one
\* result per segment and status success when the remote service answers
\* normally.
C3_MainFileSucceeds ==
    (/\ entry = "main"
     /\ pc = "file_done"
     /\ Len(valid_segments(segs)) >= 1
     /\ remote_seen \subseteq {"normal"}) =>
        /\ file_status = "success"
        /\ Len(results) = Len(valid_segments(segs))

\* C4: the returned list has one result per input segment, in input order, and
\* the k-th result carries the k-th segment's speaker, timestamp and text
\* unchanged, whatever the remote response contains.
C4_ResultsCarrySegments ==
    (pc = "returned" /\ OwnMethodRun) =>
        /\ Len(results) = Len(segments)
        /\ \A k \in 1..Len(results) :
              /\ results[k].speaker = segments[k].speaker
              /\ results[k].timestamp = segments[k].timestamp
              /\ results[k].text = segments[k].text

batch_size == 5

RequestEvents == {n \in 1..Len(events) : events[n].ev = "request"}

\* C5: with N segments needing remote correction and batch size B, the run
\* issues ceil(N/B) remote requests (retries not counted), each request carries
\* at most B segment texts, and the requests cover the N segments in order.
C5_BatchPartitioning ==
    (pc = "returned" /\ OwnMethodRun) =>
        LET N == Cardinality(RemoteIndices)
            dispatched == {<<events[n].seg, events[n].n>> : n \in RequestEvents}
        IN /\ Cardinality(dispatched) = (N + batch_size - 1) \div batch_size
           /\ \A n \in RequestEvents : events[n].n <= batch_size
           /\ \A m, n \in RequestEvents : m < n => events[m].seg <= events[n].seg

\* C6: every result of the batch operation, on every path, contains a method
\* field.
C6_MethodPresent ==
    OwnMethodRun => \A k \in 1..Len(results) : HasKey(results[k], "method")

\* C7: every result has a confidence within [0, 1], and so has every error
\* detail inside it, for any remote response.
C7_ConfidenceBounds ==
    OwnMethodRun =>
        \A k \in 1..Len(results) :
            /\ HasKey(results[k], "confidence")
            /\ results[k].confidence \in 0..100
            /\ LET errors == Get(results[k], "errors", <<>>) IN
               \A e \in 1..Len(errors) :
                   HasKey(errors[e], "confidence") /\ errors[e].confidence \in 0..100

\* C8: in every result, has_errors implies that corrected_text differs from
\* original_text or that the errors list is not empty.
C8_HasErrorsExplained ==
    OwnMethodRun =>
        \A k \in 1..Len(results) :
            Get(results[k], "has_errors", FALSE) =>
                \/ Get(results[k], "corrected_text", <<>>) # Get(results[k], "original_text", <<>>)
                \/ Len(Get(results[k], "errors", <<>>)) > 0

\* C9: for a text whose trimmed length is below 3, pre_filter_text returns
\* skip, and detect_and_correct_text_errors returns the pre-filter result:
\* method pre_filter, has_errors false, corrected_text equal to the text as
\* given, no error detail, no remote request.
C9_ShortTextSkipped ==
    (call.op # "none" /\ Len(Strip(call.text)) < 3) =>
        /\ call.op = "pre_filter_text" => call.out.returns = FALSE
        /\ call.op = "detect_and_correct_text_errors" =>
              /\ call.out.method = "pre_filter"
              /\ call.out.has_errors = FALSE
              /\ call.out.corrected_text = call.text
              /\ call.out.original_text = call.text
              /\ call.out.errors = <<>>
              /\ ~ call.requested

\* C9 witness: the pipeline was called on a two-character text that carries
\* an error-prone character and surrounding whitespace.
C9_Witness ==
    /\ call.op = "detect_and_correct_text_errors"
    /\ Len(call.text) = 3
    /\ Len(Strip(call.text)) = 2
    /\ \E k \in 1..Len(call.text) : call.text[k] \in ErrorIndicators
    /\ call.out.method = "pre_filter"

\* C10: for every acknowledgment word of the fixed set, optionally followed by
\* terminal punctuation, pre_filter_text returns false.
C10_AckWordsSkipped ==
    (call.op = "pre_filter_text" /\ call.text \in AckTexts) => call.out.returns = FALSE

\* the trimmed text holds one of 的 得 地 在 再 那 哪
HasIndicator(t) == \E k \in 1..Len(t) : t[k] \in ErrorIndicators

\* C11: pre_filter_text returns true exactly when the trimmed text has at
\* least 3 characters, fully matches none of the skip patterns, and either
\* holds one of 的 得 地 在 再 那 哪 or has at least 20 characters; the call
\* sends nothing and leaves the client and the text as they were.
C11_PreFilterExact ==
    (call.op = "pre_filter_text") =>
        LET t == Strip(call.text) IN
        /\ call.out.returns =
              (Len(t) >= 3 /\ ~ skip_patterns(t) /\ (HasIndicator(t) \/ Len(t) >= 20))
        /\ call.out.returns = pre_filter_text(call.text)
        /\ call.requested = FALSE
        /\ call.text \in InputTexts
        /\ client_attrs = GLMClientAttrs
        /\ BatchIdle

\* C11 witness: a text of 20 characters without an error-prone character is
\* passed on because of its length alone.
C11_Witness ==
    /\ call.op = "pre_filter_text"
    /\ call.out.returns
    /\ Len(Strip(call.text)) >= 20
    /\ ~ HasIndicator(Strip(call.text))

\* C12: quick_fix_text on 我觉的这个方案不错 returns 我觉得这个方案不错 with
\* has_errors true and exactly one error detail, of type 明显错字, original
\* 我觉的, corrected 我觉得; on 在说一遍 it returns 再说一遍.
C12_QuickFixExamples ==
    (call.op = "quick_fix_text") =>
        /\ (call.text = <<"wo", "jue", "de", "zhe", "ge", "fang", "an", "bu", "cuo">>) =>
              /\ call.out.corrected_text =
                    <<"wo", "jue", "de2", "zhe", "ge", "fang", "an", "bu", "cuo">>
              /\ call.out.has_errors = TRUE
              /\ Len(call.out.errors) = 1
              /\ call.out.errors[1].type = Typo
              /\ call.out.errors[1].original = <<"wo", "jue", "de">>
              /\ call.out.errors[1].corrected = <<"wo", "jue", "de2">>
        /\ (call.text = <<"zai", "shuo", "yi", "bian">>) =>
              call.out.corrected_text = <<"zai4", "shuo", "yi", "bian">>

\* C12 witness: quick_fix_text has been called on 我觉的这个方案不错.
C12_Witness ==
    /\ call.op = "quick_fix_text"
    /\ call.text = <<"wo", "jue", "de", "zhe", "ge", "fang", "an", "bu", "cuo">>
    /\ call.out.has_errors

\* C13: quick_fix_text applied to the corrected_text of quick_fix_text(t)
\* changes nothing and reports no error.
C13_QuickFixIdempotent ==
    (call.op = "quick_fix_text") =>
        LET again == quick_fix_text(call.out.corrected_text) IN
        /\ again.corrected_text = call.out.corrected_text
        /\ again.has_errors = FALSE
        /\ again.errors = <<>>

\* C13 witness: a text in which two rules fired, one rewriting 再 to 在 and
\* one rewriting 在 to 再.
C13_Witness ==
    /\ call.op = "quick_fix_text"
    /\ Len(call.out.errors) >= 2
    /\ \E k \in 1..Len(call.out.errors) : call.out.errors[k].original = <<"zai4", "na">>
    /\ \E k \in 1..Len(call.out.errors) : call.out.errors[k].original = <<"zai", "xiang">>

\* the requests in tries, all of one segment, and pairs of them with no
\* request between
TryRequests == {n \in 1..Len(tries) : tries[n].ev = "request"}

Consecutive(m, n) ==
    /\ m \in TryRequests
    /\ n \in TryRequests
    /\ m < n
    /\ ~ \E q \in TryRequests : m < q /\ q < n

\* the segment tries is about, and whether the loop is done with it
TriedSegment == tries[1].seg

TriedDone == tries # <<>> /\ (TriedSegment < i \/ pc = "returned")

\* the remote call of request n failed
RemoteFailed(n) == tries[n].failed

\* a timeout gives the result a connection error gives, and a result with
\* 'error' exactly when any other failed call gives one
TimeoutLikeOthers ==
    \A t \in RemoteTexts : \A x, y \in Failures :
        /\ HasKey(DetectOf[t][x].value, "error") <=> HasKey(DetectOf[t][y].value, "error")
        /\ (x.kind = "timeout" /\ y.kind = "connection_error") => DetectOf[t][x] = DetectOf[t][y]

\* the segment texts in which quick_fix_text finds an error
QuickHitTexts == {t \in SegTexts : quick_fix_text(t).has_errors}

\* bounds and pauses of the attempts of one segment
AttemptsBounded(most) ==
    /\ Cardinality(TryRequests) <= most
    /\ \A n \in TryRequests : tries[n].seg = TriedSegment
    /\ \A m, n \in TryRequests :
          Consecutive(m, n) =>
             /\ \E q \in (m + 1)..(n - 1) : tries[q] = Pause(TriedSegment, RetryDelay)
             /\ tries[m].error

\* request n was not the last one the attempt loop allows
AttemptsLeft(n) == Cardinality({m \in TryRequests : m <= n}) < max_retries

JustAppended(k) == tries # <<>> /\ TriedSegment = k /\ Len(results) = k

\* every request of segment k met a failed remote call
AllAttemptsFailed(k) == JustAppended(k) /\ \A n \in TryRequests : RemoteFailed(n)

\* the dicts the method can return for a segment text: with no request, and
\* with a request whose remote call failed or did not fail
OwnValues ==
    [t \in SegTexts |->
        [any |-> {DetectOf[t][resp].value : resp \in Responses(t) \cup {NoResponse}},
         none |-> {DetectOf[t][NoResponse].value},
         failed |-> {DetectOf[t][resp].value : resp \in {x \in Responses(t) : AnswerFailed(x)}},
         answered |-> {DetectOf[t][resp].value :
                          resp \in {x \in Responses(t) : ~ AnswerFailed(x)}}]]

\* the results the loop can append for segment k, given the text of segment k
\* and, while tries still holds them, the answer its last request met
OwnResults(k) ==
    LET text == segments[k].text
        last == CHOOSE n \in TryRequests : \A m \in TryRequests : m <= n
        values == IF text \notin RemoteTexts THEN OwnValues[text].none
                  ELSE IF ~ JustAppended(k) THEN OwnValues[text].any
                  ELSE IF tries[last].failed THEN OwnValues[text].failed
                  ELSE OwnValues[text].answered
    IN IF IsBlank(text) THEN {EmptyResult(segments[k])}
       ELSE {Update(segments[k], v) : v \in values}

\* a failure result: the original text kept, confidence 0, an error message
IsFailureResult(r, segment) ==
    /\ HasKey(r, "error")
    /\ Get(r, "confidence", -1) = 0
    /\ Get(r, "original_text", <<>>) = segment.text
    /\ Get(r, "text", <<>>) = segment.text

\* no failure ends the run, one result per segment on return, and the result
\* appended last comes from its own segment and the answers to that segment's
\* requests
ResultsIsolated ==
    /\ Len(segments) > 0 => pc # "raised"
    /\ pc = "returned" => Len(results) = Len(segments)
    /\ Len(results) > 0 => results[Len(results)] \in OwnResults(Len(results))

\* a result that was appended is never changed afterwards
ResultsKept == \A k \in 1..Len(results) : Len(results') >= k /\ results'[k] = results[k]

RemoteProduced == {k \in 1..Len(results) : Get(results[k], "method", "None") = "api"}

\* C16: at the end of a run the reported counts per method (remote, quick-fix,
\* pre-filter) and the failed count add up to the number of segments, and the
\* reported remote count is the number of results the remote service produced.
C16_CountsAddUp ==
    (pc = "file_done" /\ file_status = "success") =>
        LET c == file_out.report IN
        /\ c.batch_api_count + c.quick_fix_count + c.pre_filter_count + c.api_errors
              = c.total_segments
        /\ c.batch_api_count = Cardinality(RemoteProduced)

\* C17: with only_correct set, processing a file writes the corrected file
\* and no report file.
C17_OnlyCorrectedFile ==
    (pc = "file_done" /\ file_out.only_correct) => file_out.written = {"corrected"}

\* the files whose processing has begun
Processed == {f \in 1..Len(run.files) : run.task[f] \in {"running", "done"}}

\* C18: without continue_on_error, once the loop has met a failed file no
\* further file is processed; with it, every file is processed and exactly
\* one result per file is recorded; on the serial and on the pool path.
C18_ContinueOnError ==
    /\ []((run.pc = "done" /\ run.continue_on_error) =>
             /\ Processed = 1..Len(run.files)
             /\ Len(run.results) = Len(run.files)
             /\ \A f \in 1..Len(run.files) :
                   Cardinality({k \in 1..Len(run.results) : run.results[k].file = f}) = 1)
    /\ [][(run.pc # "none" /\ run.aborted) => run'.task = run.task]_vars

\* C19: test_connection returns true only if a request was sent and answered
\* normally, and returns false whenever the remote service is unreachable or
\* rejects the request.
C19_ConnectionTested ==
    (call.op = "test_connection") =>
        /\ call.out.returns => (call.requested /\ ClassOf(call.resp) = "normal")
        /\ call.out.remote \in {"unreachable", "rejecting"} => ~ call.out.returns

\* C20: for a text that passes the pre-filter, a request is sent if and only
\* if it is not the case that quick-fix found an error and the text has fewer
\* than 50 characters: 50 or more characters always get a request, and a
\* shorter text with a quick-fix hit is returned as the quick-fix result
\* without a request.
C20_RemoteIffNotQuick ==
    (call.op = "detect_and_correct_text_errors" /\ pre_filter_text(call.text)) =>
        LET quick == quick_fix_text(call.text)
            short == Len(call.text) < 50
        IN /\ call.requested <=> ~ (quick.has_errors /\ short)
           /\ call.requested <=> call.resp # NoResponse
           /\ ~ short => call.requested
           /\ (quick.has_errors /\ short) => call.out = quick

\* C20 witness: a text of 50 characters in which quick-fix found an error was
\* sent to the remote service.
C20_Witness ==
    /\ call.op = "detect_and_correct_text_errors"
    /\ pre_filter_text(call.text)
    /\ Len(call.text) = 50
    /\ quick_fix_text(call.text).has_errors
    /\ call.requested
    /\ call.resp # NoResponse

\* the remote call of the direct call was answered with a JSON object
AnsweredWithObject ==
    /\ call.op = "detect_and_correct_text_errors"
    /\ call.requested
    /\ call.resp.kind = "content"
    /\ call.resp.shape \in {"object", "wrapped"}

\* the keys of a dict
Keys(d) == DOMAIN d

\* C21: when the remote call succeeds with a parsable object: if quick-fix
\* found errors and the remote reports none, the result is the quick-fix
\* result; if both found errors, the errors list is the quick-fix entries
\* followed by the remote entries and corrected_text is the remote's; if
\* quick-fix found nothing, the result is the remote object with only the
\* method tag and a missing original_text added.
C21_MergePolicy ==
    AnsweredWithObject =>
        LET quick == quick_fix_text(call.text)
            remote == call.resp.obj
            remote_errors == Get(remote, "has_errors", FALSE)
            added == {"method"} \cup (IF HasKey(remote, "original_text")
                                      THEN {} ELSE {"original_text"})
        IN /\ (quick.has_errors /\ ~ remote_errors) =>
                 /\ call.out = quick
                 /\ call.out.method = "quick_fix"
           /\ (quick.has_errors /\ remote_errors) =>
                 /\ call.out.errors = quick.errors \o Get(remote, "errors", <<>>)
                 /\ call.out.corrected_text = remote.corrected_text
                 /\ call.out.method = "api"
           /\ ~ quick.has_errors =>
                 /\ Keys(call.out) = Keys(remote) \cup added
                 /\ \A k \in Keys(remote) \ {"method"} : call.out[k] = remote[k]
                 /\ call.out.method = "api"
                 /\ call.out.original_text = Get(remote, "original_text", call.text)

\* C21 witness: quick-fix and the remote service both found an error, and the
\* merged list holds the quick-fix entry before the remote entry.
C21_Witness ==
    /\ AnsweredWithObject
    /\ quick_fix_text(call.text).has_errors
    /\ Get(call.resp.obj, "has_errors", FALSE)
    /\ Len(call.out.errors) = 2
    /\ call.out.errors[1].type = Typo
    /\ call.out.errors[2] = RemoteDetail

\* the texts left by rule 1, by rules 1 and 2, ... of the table, each rule
\* replacing in the text left by the rules before it
RECURSIVE TextAfter(_, _)
TextAfter(text, k) ==
    IF k > Len(quick_fixes) THEN <<>>
    ELSE LET new_text == Replace(text, quick_fixes[k].pattern, quick_fixes[k].replacement)
         IN <<new_text>> \o TextAfter(new_text, k + 1)

\* the rules that changed the text, by their place in the table
Fired(text) ==
    LET after == TextAfter(text, 1)
    IN {k \in 1..Len(quick_fixes) : after[k] # (IF k = 1 THEN text ELSE after[k - 1])}

\* the n-th smallest member of a set of numbers
Nth(S, n) == CHOOSE k \in S : Cardinality({j \in S : j < k}) = n - 1

\* every rule of 明显同音字错误 stands before every rule of 明显错字
CategoriesInOrder ==
    \A j, k \in 1..Len(quick_fixes) :
        (quick_fixes[j].type = Homophone /\ quick_fixes[k].type = Typo) => j < k

\* C22: quick_fix_text applies the rules in table order, every homophone rule
\* before every typo rule, each rule on the output of the rules before it;
\* errors has exactly one entry of confidence 0.9 for each rule that changed
\* the text, in firing order; has_errors holds iff errors is non-empty iff
\* corrected_text differs from the input.
C22_QuickFixOrder ==
    /\ CategoriesInOrder
    /\ call.op = "quick_fix_text" =>
          LET out == call.out
              fired == Fired(call.text)
          IN /\ out.corrected_text = TextAfter(call.text, 1)[Len(quick_fixes)]
             /\ Len(out.errors) = Cardinality(fired)
             /\ \A n \in 1..Len(out.errors) :
                   LET rule == quick_fixes[Nth(fired, n)] IN
                   /\ out.errors[n].type = rule.type
                   /\ out.errors[n].original = rule.pattern
                   /\ out.errors[n].corrected = rule.replacement
                   /\ out.errors[n].confidence = 90
             /\ out.has_errors <=> out.errors # <<>>
             /\ out.has_errors <=> out.corrected_text # call.text
             /\ out.original_text = call.text

\* C22 witness: on 我觉的再那 the homophone rule fired first although its
\* pattern stands later in the text, and both rewrites are in the text.
C22_Witness ==
    /\ call.op = "quick_fix_text"
    /\ call.text = MixedText
    /\ Len(call.out.errors) = 2
    /\ call.out.errors[1].type = Homophone
    /\ call.out.errors[2].type = Typo
    /\ call.out.corrected_text = <<"wo", "jue", "de2", "zai", "na">>

\* the remote call of the direct call was answered with status 200 and a
\* content that is the empty string
AnsweredEmpty ==
    /\ call.op = "detect_and_correct_text_errors"
    /\ call.requested
    /\ call.resp.kind = "content"
    /\ call.resp.shape = "empty"

\* C23: when the remote service answers with status 200 but an empty content,
\* the attempt counts as a failure: its result carries an error (and is
\* therefore retried by the batch loop while attempts remain).
C23_EmptyContentFails ==
    AnsweredEmpty => HasKey(call.out, "error")

\* the raw content of an answer that json.loads rejects: nothing, a sentence
\* without braces (没有错误), and braces around something that is not JSON
RawContent(shape) ==
    CASE shape = "empty" -> <<>>
      [] shape = "prose" -> <<"mei", "you", "cuo", "wu">>
      [] shape = "bad_braces" -> <<"{", "mei", "you", "cuo", "wu", "}">>

\* the remote call of the direct call was answered with status 200 and a
\* content that parses neither between its braces nor as a whole
AnsweredUnparsable ==
    /\ call.op = "detect_and_correct_text_errors"
    /\ call.requested
    /\ call.resp.kind = "content"
    /\ call.resp.shape \in {"prose", "bad_braces"}

\* C24: the substring from the first '{' to the last '}' of the content is
\* parsed first, then the entire content; if both fail, the result's
\* corrected_text is the entire raw response text, with confidence 0.5 and a
\* parse-failure note.
C24_RawTextFallback ==
    AnsweredUnparsable =>
        /\ call.out.corrected_text = RawContent(call.resp.shape)
        /\ call.out.confidence = 50
        /\ call.out.suggestions = "api_jiexi_shibai"

\* two requests in events with no request between them
NextRequest(m, n) ==
    /\ m \in RequestEvents
    /\ n \in RequestEvents
    /\ m < n
    /\ ~ \E q \in RequestEvents : m < q /\ q < n

\* the time.sleep calls in events
SleepEvents == {n \in 1..Len(events) : events[n].ev = "sleep"}

\* C25: between any two consecutive remote requests that belong to different
\* segments a delay elapses, whatever became of the earlier request, and no
\* delay is inserted after a segment that was resolved without a request.
C25_RateControl ==
    OwnMethodRun =>
        /\ \A m, n \in 1..Len(events) :
              (NextRequest(m, n) /\ events[m].seg # events[n].seg) =>
                  \E k \in SleepEvents : m < k /\ k < n
        /\ \A k \in SleepEvents :
              \E m \in RequestEvents : m < k /\ events[m].seg = events[k].seg

\* C26: the corrected file holds exactly one entry per result, in result
\* order, and never drops a segment: a result carrying an error is written
\* with the segment's original text and a failure marker, a result with
\* has_errors true and a non-empty corrected_text with the corrected text,
\* every other result with the segment's original text.
C26_CorrectedFileComplete ==
    (pc = "file_done" /\ file_status = "success") =>
        LET entries == file_out.corrected IN
        /\ Len(entries) = Len(results)
        /\ \A k \in 1..Len(entries) :
              LET r == results[k] IN
              /\ HasKey(r, "error") =>
                    entries[k].text = segments[k].text /\ entries[k].marked
              /\ (~ HasKey(r, "error") /\ Get(r, "has_errors", FALSE)
                    /\ Get(r, "corrected_text", <<>>) # <<>>) =>
                    entries[k].text = r.corrected_text /\ ~ entries[k].marked
              /\ (~ HasKey(r, "error")
                    /\ ~ (Get(r, "has_errors", FALSE)
                            /\ Get(r, "corrected_text", <<>>) # <<>>)) =>
                    entries[k].text = segments[k].text /\ ~ entries[k].marked

\* the requests of segment s in events
RequestsOf(s) == {n \in RequestEvents : events[n].seg = s}

\* C27: for every finite segment list and max_retries >= 1 the batch
\* operation eventually returns with a result for every segment, after at
\* most max_retries remote attempts per segment and at most N * max_retries
\* in total.
C27_Termination ==
    /\ [](OwnMethodRun =>
            /\ \A s \in 1..Len(segments) : Cardinality(RequestsOf(s)) <= max_retries
            /\ Cardinality(RequestEvents) <= Len(segments) * max_retries)
    /\ (pc = "loop" /\ OwnMethodRun) ~> (pc = "returned" /\ Len(results) = Len(segments))

\* the text holds a literal pattern of the quick-fix table
HoldsPattern(t) == \E k \in 1..Len(quick_fixes) : Contains(t, quick_fixes[k].pattern)

\* C28: for every text that holds a literal pattern of the quick-fix table
\* pre_filter_text returns true, so the pipeline result for that text is
\* never the pre-filter skip result.
C28_PreFilterKeepsPatterns ==
    (call.op # "none" /\ HoldsPattern(call.text)) =>
        /\ call.op = "pre_filter_text" => call.out.returns
        /\ call.op = "detect_and_correct_text_errors" => call.out.method # "pre_filter"

\* the batch operation is over: it returned or raised, and the file step may
\* have followed
BatchOver == pc \in {"returned", "raised", "file_done"}

\* C29: processing an empty segment list completes without raising: the
\* batch operation returns an empty list and the file is processed with
\* success.
C29_EmptyListCompletes ==
    (BatchOver /\ segments = <<>>) =>
        /\ exc = "none"
        /\ results = <<>>
        /\ pc # "raised"
        /\ pc = "file_done" => file_status = "success"

\* C30: with max_retries = 0 the batch operation never raises and every
\* result is one the method returns for that segment's own text: no segment
\* gets the result computed for an earlier segment.
C30_ZeroRetries ==
    (max_retries = 0 /\ segments # <<>>) =>
        /\ pc # "raised"
        /\ \A k \in 1..Len(results) : results[k] \in OwnResults(k)
====
